---- MODULE Spec2Model ----
(***************************************************************************)
(* OBD-II (CAN) engine monitor of the Tracker application, src/src/main.cpp *)
(*                                                                         *)
(* loop() is modelled section by section, in program order; pc names the   *)
(* section the application thread executes next:                           *)
(*   "tracker" Tracker::instance().loop(), key read      (lines 159-175)   *)
(*   "poll"    CAN_INT and readMsgBufID                  (lines 178-183)   *)
(*   "decode"  the received frame is decoded             (lines 185-200)   *)
(*   "rpm"     RPM request period                        (lines 205-253)   *)
(*   "speed"   speed request period                      (lines 256-305)   *)
(*   "log"     periodic debug log                        (lines 308-327)   *)
(*   "pub"     adaptive (fast) publish                   (lines 330-340)   *)
(*   "return"  loop() returns                            (line 342)        *)
(* myLocationGenerationCallback and the cloud configuration service run    *)
(* inside Tracker::instance().loop(), i.e. while pc = "tracker".           *)
(* Each iteration of loop() sees one value of millis(); the real time `now` *)
(* advances between iterations (Tick).                                     *)
(***************************************************************************)
EXTENDS Integers, Sequences, FiniteSets, TLC

(***************************************************************************)
(* Program constants                                                       *)
(***************************************************************************)
OBD_CAN_REPLY_ID == 2024
PID_ENGINE_RPM == 12
PID_VEHICLE_SPEED == 13
requestRpmPeriod == 100
requestSpeedPeriod == 100
engineLogPeriod == 2000
\* first bytes of the two reply shapes (lines 188 and 195)
RpmReplyCount == 4
SpeedReplyCount == 3
ReplyService == 65
\* initial values of the cloud-synchronised settings (lines 84-86)
DefaultFastPublishPeriod == 60000
DefaultIdleRPM == 1600
DefaultIdleSPEED == 10
\* size of rxBuf (line 181)
RxBufLen == 8

(***************************************************************************)
(* Bounds of the model                                                     *)
(***************************************************************************)
\* millis() is an unsigned 32-bit counter; the model lets it wrap at
\* MillisModulus instead of 2^32
MillisModulus == 2200
\* real time at the first call of loop(): setup() and the system start-up
\* run before it
BootTime == 1900
\* real time explored, in milliseconds
MaxTime == 2300
\* request periods aggregated between two telemetry resets
MaxSamples == 2
\* longest sample stream fed to the aggregator on its own
StreamLen == 5

(***************************************************************************)
(* Inputs                                                                  *)
(***************************************************************************)
\* time that can pass between two sections of loop()
TickSteps == {100}

\* the same with iterations of loop() half a request period apart
FineTickSteps == {50, 100}

\* the same with an iteration of loop() that comes half a request period
\* less than a wrap of millis() after the one before
LongTickSteps == {50, MillisModulus - 50}

\* a shorter fast-publish period than the default, within ConfigInt's bounds
ShortFastPublishPeriod == 200


Frame(id, ext, data) == [id |-> id, ext |-> ext, data |-> data]

\* replies of the ECU: RPM 2000 (raw 8000), RPM 800 (raw 3202), RPM 0 (raw 3),
\* speed 50 and speed 5
RpmFrames ==
    { Frame(OBD_CAN_REPLY_ID, FALSE, <<4, 65, 12, 31, 64, 0, 0, 0>>),
      Frame(OBD_CAN_REPLY_ID, FALSE, <<4, 65, 12, 12, 130, 0, 0, 0>>),
      Frame(OBD_CAN_REPLY_ID, FALSE, <<4, 65, 12, 0, 3, 0, 0, 0>>) }
SpeedFrames ==
    { Frame(OBD_CAN_REPLY_ID, FALSE, <<3, 65, 13, 50, 0, 0, 0, 0>>),
      Frame(OBD_CAN_REPLY_ID, FALSE, <<3, 65, 13, 5, 0, 0, 0, 0>>) }
\* frames of neither shape: wrong byte count, wrong service byte, wrong PID,
\* another identifier, an extended frame with the reply identifier
OtherFrames ==
    { Frame(OBD_CAN_REPLY_ID, FALSE, <<3, 65, 12, 31, 64, 0, 0, 0>>),
      Frame(OBD_CAN_REPLY_ID, FALSE, <<4, 65, 13, 50, 0, 0, 0, 0>>),
      Frame(OBD_CAN_REPLY_ID, FALSE, <<4, 1, 12, 31, 64, 0, 0, 0>>),
      Frame(OBD_CAN_REPLY_ID, FALSE, <<4, 65, 5, 31, 64, 0, 0, 0>>),
      Frame(2025, FALSE, <<4, 65, 12, 31, 64, 0, 0, 0>>),
      Frame(OBD_CAN_REPLY_ID, TRUE, <<4, 65, 12, 31, 64, 0, 0, 0>>) }
\* frames shorter than the bytes the decoder reads
ShortFrames ==
    { Frame(OBD_CAN_REPLY_ID, FALSE, <<4, 65>>),
      Frame(OBD_CAN_REPLY_ID, FALSE, <<4, 65, 12>>) }
BusFrames == RpmFrames \cup SpeedFrames \cup OtherFrames \cup ShortFrames
NoFrame == Frame(0, FALSE, <<>>)

\* rxBuf is an uninitialised local (line 181) and readMsgBufID writes only the
\* bytes the frame carries: the other elements hold what the stack held
\* before, any bytes; the model draws them from the payloads seen on the bus
StackBuffers ==
    { f.data : f \in RpmFrames \cup SpeedFrames } \cup { <<0, 0, 0, 0, 0, 0, 0, 0>> }

(***************************************************************************)
(* State                                                                   *)
(***************************************************************************)
VARIABLES
    env,        \* the inputs of the run: the frames the bus carries, the
                \* values the key pin, sendMsgBuf and Particle.connected()
                \* return, the settings the cloud writes, the steps of the
                \* clock and the time explored; never changes
    now,                    \* real time in ms since boot
    pc,                     \* section of loop() executed next
    keyIn,                  \* line 162
    lastRPM, lastSPEED,     \* line 65
    statsRPM, statsSPEED,   \* lines 66-72, one record per quantity
    requestRpmLastMillis, requestSpeedLastMillis,   \* lines 58-59
    lastEngineLog,          \* line 76
    lastFastPublish,        \* line 81
    fastPublishPeriod, idleRPM, idleSPEED,          \* lines 84-86
    errorFlagRPM, errorFlagSPEED,                   \* lines 238, 290
    rxFrame,    \* the frame readMsgBufID took from the controller (line 183)
    rxBuf,      \* line 181, as the decoder reads it
    out,        \* what the section executed last did: frames sent, log
                \* lines and JSON fields written, publishes requested; the
                \* period sections also note the reply this iteration decoded
    freshRPM, freshSPEED,   \* a reply was decoded since the last period boundary
    fireTimes,              \* real times of the adaptive publishes so far
    cadence     \* real times of the last period boundary of each quantity,
                \* whether this iteration of loop() ran the boundary, the
                \* real time of the latest call of loop() and whether every
                \* call came less than a wrap of millis() after the one
                \* before, and
                \* whether a send error of the quantity was logged with no
                \* successful send of that quantity since

vars == <<env, now, pc, keyIn, lastRPM, lastSPEED, statsRPM, statsSPEED,
          requestRpmLastMillis, requestSpeedLastMillis, lastEngineLog,
          lastFastPublish, fastPublishPeriod, idleRPM, idleSPEED,
          errorFlagRPM, errorFlagSPEED, rxFrame, rxBuf, out,
          freshRPM, freshSPEED, fireTimes, cadence>>

progVars == <<lastRPM, lastSPEED, statsRPM, statsSPEED,
              requestRpmLastMillis, requestSpeedLastMillis, lastEngineLog,
              lastFastPublish, fastPublishPeriod, idleRPM, idleSPEED,
              errorFlagRPM, errorFlagSPEED>>

(***************************************************************************)
(* Helpers                                                                 *)
(***************************************************************************)
\* millis(): the 32-bit millisecond counter, here modulo MillisModulus
millis == now % MillisModulus

\* Elapsed with `>` for `>=`
Elapsed_Strict(t, last, period) == ((t - last) % MillisModulus) > period

\* Elapsed with a signed difference, which is negative after the wrap
Elapsed_Signed(t, last, period) == (t - last) >= period

\* Elapsed with the distance between the two counter values, whichever is
\* the later
Elapsed_Abs(t, last, period) ==
    (IF t >= last THEN t - last ELSE last - t) >= period

\* unsigned `millis() - last >= period` (lines 205, 256, 308, 334)
Elapsed(t, last, period) == ((t - last) % MillisModulus) >= period

ZeroStats ==
    [numSamples |-> 0, offSamples |-> 0, idleSamples |-> 0,
     nonIdleSamples |-> 0, nonIdleSum |-> 0, nonIdleMin |-> 0,
     nonIdleMax |-> 0]

NoOut == [kind |-> "none"]

\* requestRpmLastMillis and requestSpeedLastMillis start at 0 (lines 58-59):
\* the first period is measured from real time 0
NoBoundary ==
    [rpmAt |-> 0, speedAt |-> 0, rpmInLoop |-> FALSE, speedInLoop |-> FALSE,
     rpmErrOpen |-> FALSE, speedErrOpen |-> FALSE,
     loopAt |-> 0, soon |-> TRUE]

\* the settings after construction, lines 84-86
DefaultSettings == <<DefaultIdleRPM, DefaultIdleSPEED, DefaultFastPublishPeriod>>

\* every frame on the bus, key in and sends succeeding; the cloud only
\* switches the fast publish off and back to its default
BusEnv ==
    [frames |-> BusFrames, keys |-> {TRUE}, sends |-> {TRUE},
     ticks |-> TickSteps, horizon |-> MaxTime, clouds |-> BOOLEAN,
     settings |-> {DefaultSettings, <<DefaultIdleRPM, DefaultIdleSPEED, 0>>}]

\* key and send result free; one reply per quantity and one frame of
\* neither shape on the bus
KeyEnv ==
    [frames |-> {Frame(OBD_CAN_REPLY_ID, FALSE, <<4, 65, 12, 31, 64, 0, 0, 0>>),
                 Frame(OBD_CAN_REPLY_ID, FALSE, <<3, 65, 13, 50, 0, 0, 0, 0>>),
                 Frame(OBD_CAN_REPLY_ID, FALSE, <<4, 65, 13, 50, 0, 0, 0, 0>>)},
     keys |-> BOOLEAN, sends |-> BOOLEAN, ticks |-> TickSteps, horizon |-> MaxTime, clouds |-> BOOLEAN,
     settings |-> {DefaultSettings, <<DefaultIdleRPM, DefaultIdleSPEED, 0>>}]

\* every setting free, RPM replies only, key in and sends succeeding
GateEnv ==
    [frames |-> RpmFrames, keys |-> {TRUE}, sends |-> {TRUE},
     ticks |-> TickSteps, horizon |-> MaxTime, clouds |-> BOOLEAN,
     settings |-> {0, DefaultIdleRPM} \X {DefaultIdleSPEED}
                    \X {0, ShortFastPublishPeriod, DefaultFastPublishPeriod}]

\* the clock in steps of half a request period; two replies per quantity, on
\* either side of the idle threshold; key free, sends succeeding, no cloud
CadenceEnv ==
    [frames |-> {Frame(OBD_CAN_REPLY_ID, FALSE, <<4, 65, 12, 31, 64, 0, 0, 0>>),
                 Frame(OBD_CAN_REPLY_ID, FALSE, <<4, 65, 12, 12, 130, 0, 0, 0>>),
                 Frame(OBD_CAN_REPLY_ID, FALSE, <<3, 65, 13, 50, 0, 0, 0, 0>>),
                 Frame(OBD_CAN_REPLY_ID, FALSE, <<3, 65, 13, 5, 0, 0, 0, 0>>)},
     keys |-> BOOLEAN, sends |-> {TRUE}, ticks |-> FineTickSteps,
     horizon |-> MaxTime, clouds |-> {FALSE},
     settings |-> {DefaultSettings, <<DefaultIdleRPM, DefaultIdleSPEED, 0>>}]

\* the clock runs a request period further than a wrap of millis() after the
\* first call of loop(), in steps of half a request period and of half a
\* request period less than a wrap; one reply on the bus, key in, no cloud
WrapEnv ==
    [frames |-> {Frame(OBD_CAN_REPLY_ID, FALSE, <<4, 65, 12, 31, 64, 0, 0, 0>>)},
     keys |-> {TRUE}, sends |-> {TRUE}, ticks |-> LongTickSteps,
     horizon |-> BootTime + MillisModulus + requestRpmPeriod,
     clouds |-> {FALSE},
     settings |-> {DefaultSettings, <<DefaultIdleRPM, DefaultIdleSPEED, 0>>}]

\* sample streams for the aggregator on its own: every stream of at most
\* StreamLen samples, with a constant idle threshold
RpmSamples == {0, 800, 1600, 2000, 2400}
SpeedSamples == {0, 5, 10, 50}
StreamsOf(S) == UNION { [1..k -> S] : k \in 0..StreamLen }
StreamEnvs ==
    { [quantity |-> "rpm", stream |-> h, idle |-> t] :
        h \in StreamsOf(RpmSamples), t \in {0, DefaultIdleRPM} }
    \cup
    { [quantity |-> "speed", stream |-> h, idle |-> t] :
        h \in StreamsOf(SpeedSamples), t \in {0, DefaultIdleSPEED} }

InitState ==
    /\ now = BootTime
    /\ pc = "tracker"
    /\ keyIn = FALSE
    /\ lastRPM = 0 /\ lastSPEED = 0
    /\ statsRPM = ZeroStats /\ statsSPEED = ZeroStats
    /\ requestRpmLastMillis = 0 /\ requestSpeedLastMillis = 0
    /\ lastEngineLog = 0
    /\ lastFastPublish = 0
    /\ fastPublishPeriod = DefaultFastPublishPeriod
    /\ idleRPM = DefaultIdleRPM
    /\ idleSPEED = DefaultIdleSPEED
    /\ errorFlagRPM = FALSE /\ errorFlagSPEED = FALSE
    /\ rxFrame = NoFrame /\ rxBuf = <<>>
    /\ out = NoOut
    /\ freshRPM = FALSE /\ freshSPEED = FALSE
    /\ fireTimes = <<>>
    /\ cadence = NoBoundary

Init == env = BusEnv /\ InitState

InitGate == env = GateEnv /\ InitState

InitKey == env = KeyEnv /\ InitState

InitCadence == env = CadenceEnv /\ InitState

InitWrap == env = WrapEnv /\ InitState

\* the aggregator on its own: reset counters, a stream and its threshold
InitStream ==
    /\ env \in StreamEnvs
    /\ now = BootTime
    /\ pc = "tracker"
    /\ keyIn = FALSE
    /\ lastRPM = 0 /\ lastSPEED = 0
    /\ statsRPM = ZeroStats /\ statsSPEED = ZeroStats
    /\ requestRpmLastMillis = 0 /\ requestSpeedLastMillis = 0
    /\ lastEngineLog = 0
    /\ lastFastPublish = 0
    /\ fastPublishPeriod = DefaultFastPublishPeriod
    /\ idleRPM = (IF env.quantity = "rpm" THEN env.idle ELSE DefaultIdleRPM)
    /\ idleSPEED = (IF env.quantity = "speed" THEN env.idle ELSE DefaultIdleSPEED)
    /\ errorFlagRPM = FALSE /\ errorFlagSPEED = FALSE
    /\ rxFrame = NoFrame /\ rxBuf = <<>>
    /\ out = NoOut
    /\ freshRPM = FALSE /\ freshSPEED = FALSE
    /\ fireTimes = <<>>
    /\ cadence = NoBoundary

(***************************************************************************)
(* Response decoder, lines 185-200                                         *)
(***************************************************************************)
\* what readMsgBufID leaves in rxBuf: the frame's bytes over the old content
FillBuf(f, stale) ==
    [i \in 1..RxBufLen |-> IF i <= Len(f.data) THEN f.data[i] ELSE stale[i]]

\* line 185 and the condition of line 188 (rxBuf[0] is buf[1])
IsRpmReply(f, buf) ==
    /\ ~f.ext
    /\ f.id = OBD_CAN_REPLY_ID
    /\ buf[1] = RpmReplyCount
    /\ buf[2] = ReplyService
    /\ buf[3] = PID_ENGINE_RPM

\* line 185 and the condition of line 195
IsSpeedReply(f, buf) ==
    /\ ~f.ext
    /\ f.id = OBD_CAN_REPLY_ID
    /\ buf[1] = SpeedReplyCount
    /\ buf[2] = ReplyService
    /\ buf[3] = PID_VEHICLE_SPEED

\* lines 189-190: (rxBuf[3] << 8) | rxBuf[4], then /= 4
DecodeRPM(buf) == ((buf[4] * 256) + buf[5]) \div 4

\* line 196
DecodeSPEED(buf) == buf[4]

(***************************************************************************)
(* Statistics aggregator                                                   *)
(***************************************************************************)
\* AggregateRPM with numSamplesRPM++ moved into the idle and non-idle branches
AggregateRPM_OffUncounted(st, last, idle) ==
    IF last = 0 THEN [st EXCEPT !.offSamples = @ + 1]
    ELSE IF last < idle
    THEN [st EXCEPT !.numSamples = @ + 1, !.idleSamples = @ + 1]
    ELSE [st EXCEPT
            !.numSamples = @ + 1,
            !.nonIdleSamples = @ + 1,
            !.nonIdleSum = @ + last,
            !.nonIdleMin = IF last < @ \/ @ = 0 THEN last ELSE @,
            !.nonIdleMax = IF last > @ THEN last ELSE @]

\* AggregateRPM with `<=` for `<` in line 215
AggregateRPM_IdleInclusive(st, last, idle) ==
    LET counted == [st EXCEPT !.numSamples = @ + 1] IN
    IF last = 0 THEN [counted EXCEPT !.offSamples = @ + 1]
    ELSE IF last <= idle THEN [counted EXCEPT !.idleSamples = @ + 1]
    ELSE [counted EXCEPT
            !.nonIdleSamples = @ + 1,
            !.nonIdleSum = @ + last,
            !.nonIdleMin = IF last < @ \/ @ = 0 THEN last ELSE @,
            !.nonIdleMax = IF last > @ THEN last ELSE @]

\* lines 210-230
AggregateRPM(st, last, idle) ==
    LET counted == [st EXCEPT !.numSamples = @ + 1] IN
    IF last = 0 THEN [counted EXCEPT !.offSamples = @ + 1]
    ELSE IF last < idle THEN [counted EXCEPT !.idleSamples = @ + 1]
    ELSE [counted EXCEPT
            !.nonIdleSamples = @ + 1,
            !.nonIdleSum = @ + last,
            !.nonIdleMin = IF last < @ \/ @ = 0 THEN last ELSE @,
            !.nonIdleMax = IF last > @ THEN last ELSE @]

\* AggregateSPEED without `|| nonIdleMinSPEED == 0` in line 276
AggregateSPEED_MinNoSentinel(st, last, idle) ==
    LET counted == [st EXCEPT !.numSamples = @ + 1] IN
    IF last = 0 THEN [counted EXCEPT !.offSamples = @ + 1]
    ELSE IF last < idle THEN [counted EXCEPT !.idleSamples = @ + 1]
    ELSE [counted EXCEPT
            !.nonIdleSamples = @ + 1,
            !.nonIdleSum = @ + last,
            !.nonIdleMin = IF last < @ THEN last ELSE @,
            !.nonIdleMax = IF last > @ THEN last ELSE @]

\* AggregateSPEED with line 274 also executed for an idle sample
AggregateSPEED_IdleSummed(st, last, idle) ==
    LET counted == [st EXCEPT !.numSamples = @ + 1] IN
    IF last = 0 THEN [counted EXCEPT !.offSamples = @ + 1]
    ELSE IF last < idle
    THEN [counted EXCEPT !.idleSamples = @ + 1, !.nonIdleSum = @ + last]
    ELSE [counted EXCEPT
            !.nonIdleSamples = @ + 1,
            !.nonIdleSum = @ + last,
            !.nonIdleMin = IF last < @ \/ @ = 0 THEN last ELSE @,
            !.nonIdleMax = IF last > @ THEN last ELSE @]

\* lines 261-282
AggregateSPEED(st, last, idle) ==
    LET counted == [st EXCEPT !.numSamples = @ + 1] IN
    IF last = 0 THEN [counted EXCEPT !.offSamples = @ + 1]
    ELSE IF last < idle THEN [counted EXCEPT !.idleSamples = @ + 1]
    ELSE [counted EXCEPT
            !.nonIdleSamples = @ + 1,
            !.nonIdleSum = @ + last,
            !.nonIdleMin = IF last < @ \/ @ = 0 THEN last ELSE @,
            !.nonIdleMax = IF last > @ THEN last ELSE @]

\* lines 311-312 and 346-347: n ? (sum / n) : 0
Mean(sum, n) == IF n # 0 THEN sum \div n ELSE 0

\* lines 315-317, 322-324, 349-351: (int)(n * period / 1000)
Seconds(n, period) == (n * period) \div 1000

\* TelemetryFields with the reset (lines 362-368) placed before the writes
TelemetryFields_AfterReset(r, s) ==
    [kind |-> "telemetry",
     engineOff |-> 0, engineIdle |-> 0, engineNonIdle |-> 0,
     engineRpmMin |-> 0, engineRpmMean |-> 0, engineRpmMax |-> 0,
     engineSpeedMin |-> 0, engineSpeedMean |-> 0, engineSpeedMax |-> 0]

\* lines 346-359: the nine fields of a location publish
TelemetryFields(r, s) ==
    [kind |-> "telemetry",
     engineOff |-> Seconds(r.offSamples, requestRpmPeriod),
     engineIdle |-> Seconds(r.idleSamples, requestRpmPeriod),
     engineNonIdle |-> Seconds(r.nonIdleSamples, requestRpmPeriod),
     engineRpmMin |-> r.nonIdleMin,
     engineRpmMean |-> Mean(r.nonIdleSum, r.nonIdleSamples),
     engineRpmMax |-> r.nonIdleMax,
     engineSpeedMin |-> s.nonIdleMin,
     engineSpeedMean |-> Mean(s.nonIdleSum, s.nonIdleSamples),
     engineSpeedMax |-> s.nonIdleMax]

\* lines 311-326: the two lines of the debug log
LogFields(r, s) ==
    [kind |-> "log",
     rpmOff |-> Seconds(r.offSamples, requestRpmPeriod),
     rpmIdle |-> Seconds(r.idleSamples, requestRpmPeriod),
     rpmNonIdle |-> Seconds(r.nonIdleSamples, requestRpmPeriod),
     rpmMin |-> r.nonIdleMin,
     rpmMean |-> Mean(r.nonIdleSum, r.nonIdleSamples),
     rpmMax |-> r.nonIdleMax,
     speedOff |-> Seconds(s.offSamples, requestSpeedPeriod),
     speedIdle |-> Seconds(s.idleSamples, requestSpeedPeriod),
     speedNonIdle |-> Seconds(s.nonIdleSamples, requestSpeedPeriod),
     speedMin |-> s.nonIdleMin,
     speedMean |-> Mean(s.nonIdleSum, s.nonIdleSamples),
     speedMax |-> s.nonIdleMax]

\* ResetStats without line 367
ResetStats_KeepsMin(st) == [ZeroStats EXCEPT !.nonIdleMin = st.nonIdleMin]

\* lines 362-368: the counters after the reset, given the counters before
ResetStats(st) == ZeroStats

(***************************************************************************)
(* Request cadence                                                         *)
(***************************************************************************)
\* SendAttempts without the test of keyIn
SendAttempts_KeyIgnored(key) == 1

\* lines 241-242 and 293-294: calls of sendMsgBuf at a period boundary
SendAttempts(key) == IF key THEN 1 ELSE 0

\* FlagAfterSend without lines 249 and 301: the flag is never set
FlagAfterSend_NeverSet(flag, ok) == IF ok THEN FALSE ELSE flag

\* lines 243-251 and 295-303: the error flag after sendMsgBuf returned
FlagAfterSend(flag, ok) == IF ok THEN FALSE ELSE TRUE

\* lines 247-248 and 299-300: the send error is logged
ErrorLogged(flag, ok) == ~ok /\ ~flag

\* the period boundary without line 234
ClearedRPM_Kept(last) == last

\* lines 232-234: lastRPM after the period boundary
ClearedRPM(last) == 0

\* the period boundary without line 286
ClearedSPEED_Kept(last) == last

\* lines 284-286: lastSPEED after the period boundary
ClearedSPEED(last) == 0

(***************************************************************************)
(* Debug log, line 308                                                     *)
(***************************************************************************)
\* EngineLogDue without the test `engineLogPeriod != 0`
EngineLogDue_ZeroEnabled(period, t, last) == Elapsed(t, last, period)

\* line 308: the condition of the periodic debug log
EngineLogDue(period, t, last) == period # 0 /\ Elapsed(t, last, period)

(***************************************************************************)
(* Adaptive publish, lines 330 and 334                                     *)
(***************************************************************************)
\* FastPublishDue without the elapsed-time test of line 334
FastPublishDue_NoInterval(connected, rpm, idle, period, t, last) ==
    /\ connected
    /\ rpm >= idle
    /\ period > 0

\* FastPublishDue with `>= 0` for `> 0` in line 334
FastPublishDue_ZeroEnabled(connected, rpm, idle, period, t, last) ==
    /\ connected
    /\ rpm >= idle
    /\ period >= 0
    /\ Elapsed(t, last, period)

\* FastPublishDue with `>` for `>=` in line 330
FastPublishDue_AboveIdle(connected, rpm, idle, period, t, last) ==
    /\ connected
    /\ rpm > idle
    /\ period > 0
    /\ Elapsed(t, last, period)

\* FastPublishDue without the test `lastRPM >= idleRPM` of line 330
FastPublishDue_AnyRPM(connected, rpm, idle, period, t, last) ==
    /\ connected
    /\ period > 0
    /\ Elapsed(t, last, period)

\* lines 330 and 334
FastPublishDue(connected, rpm, idle, period, t, last) ==
    /\ connected
    /\ rpm >= idle
    /\ period > 0
    /\ Elapsed(t, last, period)

(***************************************************************************)
(* Actions                                                                 *)
(***************************************************************************)
\* the millisecond clock advances
Tick ==
    /\ pc = "tracker"
    /\ statsRPM.numSamples < MaxSamples
    /\ statsSPEED.numSamples < MaxSamples
    /\ \E d \in env.ticks :
        /\ now + d <= env.horizon
        /\ now' = now + d
    /\ UNCHANGED <<env, pc, keyIn, progVars, rxFrame, rxBuf, out, freshRPM,
                   freshSPEED, fireTimes,
                   cadence>>

\* lines 344-369, called by the location service inside Tracker::instance().loop()
myLocationGenerationCallback ==
    /\ pc = "tracker"
    /\ out' = TelemetryFields(statsRPM, statsSPEED)
    /\ statsRPM' = ResetStats(statsRPM)
    /\ statsSPEED' = ResetStats(statsSPEED)
    /\ UNCHANGED <<env, now, pc, keyIn, lastRPM, lastSPEED, requestRpmLastMillis,
                   requestSpeedLastMillis, lastEngineLog, lastFastPublish,
                   fastPublishPeriod, idleRPM, idleSPEED, errorFlagRPM,
                   errorFlagSPEED, rxFrame, rxBuf, freshRPM, freshSPEED,
                   fireTimes,
                   cadence>>

\* lines 106-111: the configuration service writes the registered settings
ConfigUpdate ==
    /\ pc = "tracker"
    /\ \E w \in env.settings :
        /\ w # <<idleRPM, idleSPEED, fastPublishPeriod>>
        /\ idleRPM' = w[1]
        /\ idleSPEED' = w[2]
        /\ fastPublishPeriod' = w[3]
    /\ UNCHANGED <<env, now, pc, keyIn, lastRPM, lastSPEED, statsRPM, statsSPEED,
                   requestRpmLastMillis, requestSpeedLastMillis, lastEngineLog,
                   lastFastPublish, errorFlagRPM, errorFlagSPEED, rxFrame, rxBuf,
                   out, freshRPM, freshSPEED, fireTimes,
                   cadence>>

\* lines 159-175: Tracker::instance().loop() returns, the key pin is read
ReadKey ==
    /\ pc = "tracker"
    /\ pc' = "poll"
    /\ keyIn' \in env.keys
    /\ out' = NoOut
    /\ cadence' = [cadence EXCEPT
                      !.loopAt = now,
                      !.soon = @ /\ now - cadence.loopAt < MillisModulus]
    /\ UNCHANGED <<env, now, progVars, rxFrame, rxBuf, freshRPM, freshSPEED,
                   fireTimes>>

\* lines 178-183: CAN_INT is high (nothing received), or readMsgBufID hands
\* over the pending frame
PollFrame ==
    /\ pc = "poll"
    /\ \/ /\ pc' = "rpm"
          /\ UNCHANGED <<rxFrame, rxBuf>>
       \/ /\ pc' = "decode"
          /\ \E f \in env.frames, stale \in StackBuffers :
                /\ rxFrame' = f
                /\ rxBuf' = FillBuf(f, stale)
    /\ out' = NoOut
    /\ UNCHANGED <<env, now, keyIn, progVars, freshRPM, freshSPEED, fireTimes,
                   cadence>>

\* lines 185-200; rxId, len and rxBuf go out of scope at line 202
DecodeFrame ==
    /\ pc = "decode"
    /\ pc' = "rpm"
    /\ IF IsRpmReply(rxFrame, rxBuf)
       THEN /\ lastRPM' = DecodeRPM(rxBuf)
            /\ freshRPM' = TRUE
            /\ out' = [kind |-> "rx", decoded |-> "rpm",
                       value |-> DecodeRPM(rxBuf), overwrote |-> freshRPM]
            /\ UNCHANGED <<lastSPEED, freshSPEED>>
       ELSE IF IsSpeedReply(rxFrame, rxBuf)
       THEN /\ lastSPEED' = DecodeSPEED(rxBuf)
            /\ freshSPEED' = TRUE
            /\ out' = [kind |-> "rx", decoded |-> "speed",
                       value |-> DecodeSPEED(rxBuf), overwrote |-> freshSPEED]
            /\ UNCHANGED <<lastRPM, freshRPM>>
       ELSE /\ out' = [kind |-> "rx", decoded |-> "none", value |-> 0,
                       overwrote |-> FALSE]
            /\ UNCHANGED <<lastRPM, lastSPEED, freshRPM, freshSPEED>>
    /\ rxFrame' = NoFrame
    /\ rxBuf' = <<>>
    /\ UNCHANGED <<env, now, keyIn, statsRPM, statsSPEED, requestRpmLastMillis,
                   requestSpeedLastMillis, lastEngineLog, lastFastPublish,
                   fastPublishPeriod, idleRPM, idleSPEED, errorFlagRPM,
                   errorFlagSPEED, fireTimes, cadence>>

\* the quantity of the reply decoded by this iteration of loop(), as seen by
\* the RPM section
DecodedNow == IF out.kind = "rx" THEN out.decoded ELSE "none"

\* lines 205-253
RequestRPM ==
    /\ pc = "rpm"
    /\ pc' = "speed"
    /\ IF Elapsed(millis, requestRpmLastMillis, requestRpmPeriod)
       THEN /\ requestRpmLastMillis' = millis
            /\ statsRPM' = AggregateRPM(statsRPM, lastRPM, idleRPM)
            /\ lastRPM' = ClearedRPM(lastRPM)
            /\ freshRPM' = FALSE
            /\ \E ok \in env.sends :
                LET n == SendAttempts(keyIn) IN
                /\ errorFlagRPM' =
                      IF n > 0 THEN FlagAfterSend(errorFlagRPM, ok) ELSE errorFlagRPM
                /\ cadence' =
                      [cadence EXCEPT
                          !.rpmAt = now,
                          !.rpmInLoop = TRUE,
                          !.rpmErrOpen =
                              IF n > 0 /\ ErrorLogged(errorFlagRPM, ok) THEN TRUE
                              ELSE IF n > 0 /\ ok THEN FALSE ELSE @]
                /\ out' = [kind |-> "rpm", boundary |-> TRUE, sends |-> n,
                           sendOk |-> n > 0 /\ ok,
                           errLog |-> n > 0 /\ ErrorLogged(errorFlagRPM, ok),
                           counted |-> lastRPM,
                           decodedNow |-> DecodedNow,
                           valueNow |-> (IF out.kind = "rx" THEN out.value ELSE 0),
                           overwrote |-> out.kind = "rx" /\ out.overwrote]
       ELSE /\ out' = [kind |-> "rpm", boundary |-> FALSE, sends |-> 0,
                       sendOk |-> FALSE, errLog |-> FALSE, counted |-> 0,
                       decodedNow |-> DecodedNow,
                       valueNow |-> (IF out.kind = "rx" THEN out.value ELSE 0),
                       overwrote |-> out.kind = "rx" /\ out.overwrote]
            /\ UNCHANGED <<requestRpmLastMillis, statsRPM, lastRPM, freshRPM,
                           errorFlagRPM, cadence>>
    /\ UNCHANGED <<env, now, keyIn, lastSPEED, statsSPEED, requestSpeedLastMillis,
                   lastEngineLog, lastFastPublish, fastPublishPeriod, idleRPM,
                   idleSPEED, errorFlagSPEED, rxFrame, rxBuf, freshSPEED,
                   fireTimes>>

\* lines 256-305
RequestSPEED ==
    /\ pc = "speed"
    /\ pc' = "log"
    /\ IF Elapsed(millis, requestSpeedLastMillis, requestSpeedPeriod)
       THEN /\ requestSpeedLastMillis' = millis
            /\ statsSPEED' = AggregateSPEED(statsSPEED, lastSPEED, idleSPEED)
            /\ lastSPEED' = ClearedSPEED(lastSPEED)
            /\ freshSPEED' = FALSE
            /\ \E ok \in env.sends :
                LET n == SendAttempts(keyIn) IN
                /\ errorFlagSPEED' =
                      IF n > 0 THEN FlagAfterSend(errorFlagSPEED, ok) ELSE errorFlagSPEED
                /\ cadence' =
                      [cadence EXCEPT
                          !.speedAt = now,
                          !.speedInLoop = TRUE,
                          !.speedErrOpen =
                              IF n > 0 /\ ErrorLogged(errorFlagSPEED, ok) THEN TRUE
                              ELSE IF n > 0 /\ ok THEN FALSE ELSE @]
                /\ out' = [kind |-> "speed", boundary |-> TRUE, sends |-> n,
                           sendOk |-> n > 0 /\ ok,
                           errLog |-> n > 0 /\ ErrorLogged(errorFlagSPEED, ok),
                           counted |-> lastSPEED,
                           decodedNow |-> out.decodedNow,
                           valueNow |-> out.valueNow,
                           overwrote |-> out.overwrote]
       ELSE /\ out' = [kind |-> "speed", boundary |-> FALSE, sends |-> 0,
                       sendOk |-> FALSE, errLog |-> FALSE, counted |-> 0,
                       decodedNow |-> out.decodedNow,
                       valueNow |-> out.valueNow,
                       overwrote |-> out.overwrote]
            /\ UNCHANGED <<requestSpeedLastMillis, statsSPEED, lastSPEED,
                           freshSPEED, errorFlagSPEED, cadence>>
    /\ UNCHANGED <<env, now, keyIn, lastRPM, statsRPM, requestRpmLastMillis,
                   lastEngineLog, lastFastPublish, fastPublishPeriod, idleRPM,
                   idleSPEED, errorFlagRPM, rxFrame, rxBuf, freshRPM,
                   fireTimes>>

\* lines 308-327
EngineLog ==
    /\ pc = "log"
    /\ pc' = "pub"
    /\ IF EngineLogDue(engineLogPeriod, millis, lastEngineLog)
       THEN /\ lastEngineLog' = millis
            /\ out' = LogFields(statsRPM, statsSPEED)
       ELSE /\ out' = NoOut
            /\ UNCHANGED lastEngineLog
    /\ UNCHANGED <<env, now, keyIn, lastRPM, lastSPEED, statsRPM, statsSPEED,
                   requestRpmLastMillis, requestSpeedLastMillis, lastFastPublish,
                   fastPublishPeriod, idleRPM, idleSPEED, errorFlagRPM,
                   errorFlagSPEED, rxFrame, rxBuf, freshRPM, freshSPEED,
                   fireTimes,
                   cadence>>

\* lines 330-340
FastPublish ==
    /\ pc = "pub"
    /\ pc' = "return"
    /\ \E connected \in env.clouds :
        IF FastPublishDue(connected, lastRPM, idleRPM, fastPublishPeriod,
                          millis, lastFastPublish)
        THEN /\ lastFastPublish' = millis
             /\ fireTimes' = Append(fireTimes, now)
             /\ out' = [kind |-> "pub", connected |-> connected, locPub |-> TRUE]
        ELSE /\ out' = [kind |-> "pub", connected |-> connected, locPub |-> FALSE]
             /\ UNCHANGED <<lastFastPublish, fireTimes>>
    /\ UNCHANGED <<env, now, keyIn, lastRPM, lastSPEED, statsRPM, statsSPEED,
                   requestRpmLastMillis, requestSpeedLastMillis, lastEngineLog,
                   fastPublishPeriod, idleRPM, idleSPEED, errorFlagRPM,
                   errorFlagSPEED, rxFrame, rxBuf, freshRPM, freshSPEED,
                   cadence>>

\* line 342: loop() returns, its locals are gone
Return ==
    /\ pc = "return"
    /\ pc' = "tracker"
    /\ keyIn' = FALSE
    /\ out' = NoOut
    /\ cadence' = [cadence EXCEPT !.rpmInLoop = FALSE, !.speedInLoop = FALSE]
    /\ UNCHANGED <<env, now, progVars, rxFrame, rxBuf, freshRPM, freshSPEED,
                   fireTimes>>

\* lines 210-234 on the next sample of the stream: the period boundary of
\* RPM without its clock and its request
ConsumeRPM ==
    /\ env.quantity = "rpm"
    /\ statsRPM.numSamples < Len(env.stream)
    /\ statsRPM' = AggregateRPM(statsRPM, env.stream[statsRPM.numSamples + 1], idleRPM)
    /\ out' = NoOut
    /\ UNCHANGED <<env, now, pc, keyIn, lastRPM, lastSPEED, statsSPEED,
                   requestRpmLastMillis, requestSpeedLastMillis, lastEngineLog,
                   lastFastPublish, fastPublishPeriod, idleRPM, idleSPEED,
                   errorFlagRPM, errorFlagSPEED, rxFrame, rxBuf, freshRPM,
                   freshSPEED, fireTimes,
                   cadence>>

\* lines 261-286 on the next sample of the stream
ConsumeSPEED ==
    /\ env.quantity = "speed"
    /\ statsSPEED.numSamples < Len(env.stream)
    /\ statsSPEED' =
          AggregateSPEED(statsSPEED, env.stream[statsSPEED.numSamples + 1], idleSPEED)
    /\ out' = NoOut
    /\ UNCHANGED <<env, now, pc, keyIn, lastRPM, lastSPEED, statsRPM,
                   requestRpmLastMillis, requestSpeedLastMillis, lastEngineLog,
                   lastFastPublish, fastPublishPeriod, idleRPM, idleSPEED,
                   errorFlagRPM, errorFlagSPEED, rxFrame, rxBuf, freshRPM,
                   freshSPEED, fireTimes,
                   cadence>>

Next ==
    \/ Tick
    \/ myLocationGenerationCallback
    \/ ConfigUpdate
    \/ ReadKey
    \/ PollFrame
    \/ DecodeFrame
    \/ RequestRPM
    \/ RequestSPEED
    \/ EngineLog
    \/ FastPublish
    \/ Return

Spec == Init /\ [][Next]_vars

SpecGate == InitGate /\ [][Next]_vars

SpecKey == InitKey /\ [][Next]_vars

SpecCadence == InitCadence /\ [][Next]_vars

SpecWrap == InitWrap /\ [][Next]_vars

\* the system thread calls loop() again and again and no section of loop()
\* waits: every section that is at its turn is executed; the millisecond
\* clock advances whenever it is read often enough
LoopFairness ==
    /\ WF_vars(ReadKey)
    /\ WF_vars(PollFrame)
    /\ WF_vars(DecodeFrame)
    /\ WF_vars(RequestRPM)
    /\ WF_vars(RequestSPEED)
    /\ WF_vars(EngineLog)
    /\ WF_vars(FastPublish)
    /\ WF_vars(Return)
    /\ SF_vars(Tick)

SpecKeyFair == InitKey /\ [][Next]_vars /\ LoopFairness

NextStream ==
    \/ ConsumeRPM
    \/ ConsumeSPEED
    \/ myLocationGenerationCallback

SpecStream == InitStream /\ [][NextStream]_vars

(***************************************************************************)
(* Properties                                                              *)
(***************************************************************************)
Sums(st) == st.numSamples = st.offSamples + st.idleSamples + st.nonIdleSamples

\* C1: in every reachable state, for RPM and for speed, the total number of
\* samples is the sum of the off, idle and non-idle samples.
C1_TotalIsSumOfBuckets == Sums(statsRPM) /\ Sums(statsSPEED)

\* two RPM periods, one idle and one non-idle, next to an off speed period
C1_Witness ==
    /\ statsRPM.idleSamples = 1
    /\ statsRPM.nonIdleSamples = 1
    /\ statsSPEED.offSamples >= 1
    /\ statsSPEED.nonIdleSamples >= 1

AllZero(f) ==
    /\ f.engineOff = 0 /\ f.engineIdle = 0 /\ f.engineNonIdle = 0
    /\ f.engineRpmMin = 0 /\ f.engineRpmMean = 0 /\ f.engineRpmMax = 0
    /\ f.engineSpeedMin = 0 /\ f.engineSpeedMean = 0 /\ f.engineSpeedMax = 0

\* min, mean and max of both quantities as they were before the call
ReportsMinMeanMax(f, r, s) ==
    /\ f.engineRpmMin = r.nonIdleMin
    /\ f.engineRpmMax = r.nonIdleMax
    /\ f.engineRpmMean =
          (IF r.nonIdleSamples = 0 THEN 0 ELSE r.nonIdleSum \div r.nonIdleSamples)
    /\ f.engineSpeedMin = s.nonIdleMin
    /\ f.engineSpeedMax = s.nonIdleMax
    /\ f.engineSpeedMean =
          (IF s.nonIdleSamples = 0 THEN 0 ELSE s.nonIdleSum \div s.nonIdleSamples)

C4_NoStaleMinMax ==
    [][/\ (myLocationGenerationCallback =>
            /\ (statsRPM.nonIdleSamples = 0 =>
                  /\ out'.engineRpmMin = 0
                  /\ out'.engineRpmMax = 0
                  /\ out'.engineRpmMean = 0)
            /\ (statsSPEED.nonIdleSamples = 0 =>
                  /\ out'.engineSpeedMin = 0
                  /\ out'.engineSpeedMax = 0
                  /\ out'.engineSpeedMean = 0))
       /\ (EngineLog /\ out'.kind = "log" =>
            /\ (statsRPM.nonIdleSamples = 0 =>
                  out'.rpmMin = 0 /\ out'.rpmMax = 0 /\ out'.rpmMean = 0)
            /\ (statsSPEED.nonIdleSamples = 0 =>
                  out'.speedMin = 0 /\ out'.speedMax = 0 /\ out'.speedMean = 0))
      ]_vars

\* the debug log has read the counters after at least one period, with
\* non-idle speed samples and no non-idle RPM sample
C4_Witness ==
    /\ out.kind = "log"
    /\ statsRPM.numSamples > 0
    /\ statsRPM.nonIdleSamples = 0
    /\ out.rpmMin = 0
    /\ out.speedMin > 0

\* the frame carries the three bytes of the RPM reply shape
HasRpmShape(f) ==
    /\ Len(f.data) >= 3
    /\ f.data[1] = 4 /\ f.data[2] = 65 /\ f.data[3] = 12

\* the frame carries the three bytes of the speed reply shape
HasSpeedShape(f) ==
    /\ Len(f.data) >= 3
    /\ f.data[1] = 3 /\ f.data[2] = 65 /\ f.data[3] = 13

\* a frame that is no reply: extended, or of another identifier, or of
\* neither shape
NoReply(f) ==
    \/ f.ext
    \/ f.id # 2024
    \/ ~HasRpmShape(f) /\ ~HasSpeedShape(f)

\* C5: decoding a frame that is no reply changes no state of the program.
C5_NoReplyChangesNothing ==
    [][DecodeFrame /\ NoReply(rxFrame) => UNCHANGED progVars]_vars

\* what does hold of the decoder: a frame that is no reply and carries the
\* three bytes the decoder compares changes no state of the program
FullNoReplyChangesNothing ==
    [][DecodeFrame /\ NoReply(rxFrame) /\ Len(rxFrame.data) >= 3
        => UNCHANGED progVars]_vars

RECURSIVE SumAt(_, _)
\* the sum of the samples of h at the positions I
SumAt(h, I) ==
    IF I = {} THEN 0
    ELSE LET i == CHOOSE j \in I : TRUE IN h[i] + SumAt(h, I \ {i})

\* the counters st describe the samples h under the idle threshold t
Describes(st, h, t) ==
    LET Off == {i \in DOMAIN h : h[i] = 0}
        Idle == {i \in DOMAIN h : 0 < h[i] /\ h[i] < t}
        NonIdle == {i \in DOMAIN h : h[i] # 0 /\ h[i] >= t}
    IN  /\ st.offSamples = Cardinality(Off)
        /\ st.idleSamples = Cardinality(Idle)
        /\ st.nonIdleSamples = Cardinality(NonIdle)
        /\ NonIdle # {} =>
            /\ \E i \in NonIdle : st.nonIdleMin = h[i]
            /\ \A i \in NonIdle : st.nonIdleMin <= h[i]
            /\ \E i \in NonIdle : st.nonIdleMax = h[i]
            /\ \A i \in NonIdle : st.nonIdleMax >= h[i]
            /\ Mean(st.nonIdleSum, st.nonIdleSamples)
                  = SumAt(h, NonIdle) \div Cardinality(NonIdle)

\* the samples consumed since the counters were reset
Consumed(st) == SubSeq(env.stream, 1, st.numSamples)

\* C3: starting from reset counters, after any stream of samples under a
\* constant idle threshold T the off, idle and non-idle counters count the
\* samples = 0, the samples in (0, T) and the non-zero samples >= T, min and
\* max are those of the non-idle samples and the mean is their sum divided by
\* their number; T = 1600 and [0, 800, 1600, 2000, 2400] give 1, 1, 3,
\* 1600, 2400 and 2000.
C3_CountersDescribeStream ==
    /\ env.quantity = "rpm" => Describes(statsRPM, Consumed(statsRPM), idleRPM)
    /\ env.quantity = "speed" => Describes(statsSPEED, Consumed(statsSPEED), idleSPEED)
    /\ ( /\ env.quantity = "rpm"
         /\ env.stream = <<0, 800, 1600, 2000, 2400>>
         /\ idleRPM = 1600
         /\ statsRPM.numSamples = 5 )
       => /\ statsRPM.offSamples = 1
          /\ statsRPM.idleSamples = 1
          /\ statsRPM.nonIdleSamples = 3
          /\ statsRPM.nonIdleMin = 1600
          /\ statsRPM.nonIdleMax = 2400
          /\ Mean(statsRPM.nonIdleSum, statsRPM.nonIdleSamples) = 2000

\* the stream of the example has been consumed
C3_Witness ==
    /\ env.quantity = "rpm"
    /\ env.stream = <<0, 800, 1600, 2000, 2400>>
    /\ idleRPM = 1600
    /\ statsRPM.numSamples = 5

\* the adaptive trigger fired in the step: triggerLocPub was called
Fired == FastPublish /\ out'.locPub

\* C6: two consecutive firings of the adaptive trigger are at least
\* fastPublishPeriod apart in real time.
C6_FiringsApart ==
    [][Fired /\ fireTimes # <<>> =>
        now - fireTimes[Len(fireTimes)] >= fastPublishPeriod]_vars

\* the trigger has fired a second time, with RPM at or above idle
C6_Witness ==
    /\ out.kind = "pub"
    /\ out.locPub
    /\ Len(fireTimes) = 2
    /\ lastRPM >= idleRPM
    /\ lastRPM > 0

\* C7: while fastPublishPeriod is 0 no step fires the adaptive trigger and no
\* step changes lastFastPublish.
C7_ZeroDisables ==
    [][fastPublishPeriod = 0 =>
        /\ lastFastPublish' = lastFastPublish
        /\ fireTimes' = fireTimes
        /\ ~Fired]_vars

\* the trigger was checked with the cloud connected, RPM above idle, the
\* period 0 and more than a request period since the last firing
C7_Witness ==
    /\ out.kind = "pub"
    /\ out.connected
    /\ ~out.locPub
    /\ fastPublishPeriod = 0
    /\ lastRPM >= idleRPM
    /\ lastRPM > 0
    /\ fireTimes # <<>>
    /\ now > fireTimes[Len(fireTimes)]

C9_SendOnlyWithKeyAtBoundary ==
    out.kind \in {"rpm", "speed"} =>
        out.sends = (IF keyIn /\ out.boundary THEN 1 ELSE 0)

\* an RPM request has failed and was sent once
C9_Witness ==
    /\ out.kind = "rpm"
    /\ out.boundary
    /\ keyIn
    /\ out.sends = 1
    /\ ~out.sendOk

\* C10: a period boundary of a quantity that follows a period in which no
\* reply of that quantity was decoded counts an off sample and no idle or
\* non-idle sample.
C10_SilentPeriodIsOff ==
    [][/\ (RequestRPM /\ out'.boundary /\ ~freshRPM =>
            /\ statsRPM'.offSamples = statsRPM.offSamples + 1
            /\ statsRPM'.idleSamples = statsRPM.idleSamples
            /\ statsRPM'.nonIdleSamples = statsRPM.nonIdleSamples)
       /\ (RequestSPEED /\ out'.boundary /\ ~freshSPEED =>
            /\ statsSPEED'.offSamples = statsSPEED.offSamples + 1
            /\ statsSPEED'.idleSamples = statsSPEED.idleSamples
            /\ statsSPEED'.nonIdleSamples = statsSPEED.nonIdleSamples)]_vars

\* with the key out, an RPM period without a reply was counted as off after
\* a period with a non-idle reply
C10_Witness ==
    /\ out.kind = "rpm"
    /\ out.boundary
    /\ ~keyIn
    /\ statsRPM.nonIdleSamples = 1
    /\ statsRPM.offSamples = 1

\* C11: a send error of a quantity is logged only in a step that takes that
\* quantity's error flag from false to true; the flag goes back to false only
\* in a boundary step of that quantity whose send succeeded; an error is never
\* logged while an earlier error log of the quantity has had no successful
\* send since; a step taken with keyIn false changes neither flag; the RPM
\* boundary never changes the speed flag and the speed boundary never changes
\* the RPM flag.
C11_ErrorLogEdgeTriggered ==
    [][/\ (RequestRPM /\ out'.errLog =>
             ~errorFlagRPM /\ errorFlagRPM' /\ ~cadence.rpmErrOpen)
       /\ (RequestSPEED /\ out'.errLog =>
             ~errorFlagSPEED /\ errorFlagSPEED' /\ ~cadence.speedErrOpen)
       /\ (errorFlagRPM /\ ~errorFlagRPM' => RequestRPM /\ out'.sendOk)
       /\ (errorFlagSPEED /\ ~errorFlagSPEED' => RequestSPEED /\ out'.sendOk)
       /\ (~keyIn => UNCHANGED <<errorFlagRPM, errorFlagSPEED>>)
       /\ (RequestRPM => UNCHANGED errorFlagSPEED)
       /\ (RequestSPEED => UNCHANGED errorFlagRPM)]_vars

\* an error of the RPM request is logged at the second RPM boundary while
\* the speed flag is set from an error of the speed request
C11_Witness ==
    /\ out.kind = "rpm"
    /\ out.errLog
    /\ errorFlagRPM
    /\ errorFlagSPEED
    /\ statsRPM.numSamples = 2

\* some counter of the quantity is taken to zero by the step
Zeroed(st, st2) == \E k \in DOMAIN st : st[k] # 0 /\ st2[k] = 0

\* C12: the debug log and the adaptive publish trigger leave the seven
\* counters of both quantities and lastRPM and lastSPEED unchanged; the debug
\* log changes no program variable but lastEngineLog; a step that takes a
\* counter to zero is the telemetry callback; with a period of 0 the condition of the
\* debug log is false whatever the clock and lastEngineLog are.
C12_LogAndTriggerOnlyRead ==
    [][/\ (EngineLog \/ FastPublish =>
             UNCHANGED <<statsRPM, statsSPEED, lastRPM, lastSPEED>>)
       /\ (EngineLog =>
             UNCHANGED <<requestRpmLastMillis, requestSpeedLastMillis,
                         lastFastPublish, fastPublishPeriod, idleRPM, idleSPEED,
                         errorFlagRPM, errorFlagSPEED>>)
       /\ (Zeroed(statsRPM, statsRPM') \/ Zeroed(statsSPEED, statsSPEED') =>
             myLocationGenerationCallback)
       /\ ~EngineLogDue(0, millis, lastEngineLog)]_vars

\* the trigger has fired after the debug log was written, with a sample in
\* lastRPM and non-idle periods counted
C12_Witness ==
    /\ out.kind = "pub"
    /\ out.locPub
    /\ lastEngineLog # 0
    /\ lastRPM > 0
    /\ statsRPM.nonIdleSamples > 0
    /\ statsSPEED.offSamples > 0

\* payload[i] of a frame, counted from 0; a byte the frame does not carry
\* reads as 0
Payload(f, i) == IF i + 1 <= Len(f.data) THEN f.data[i + 1] ELSE 0

\* the values the claim gives for a reply
RpmOf(f) == ((Payload(f, 3) * 256) + Payload(f, 4)) \div 4
SpeedOf(f) == Payload(f, 3)

\* C13: decoding a standard frame with identifier 0x7E8 whose payload starts
\* with 04 41 0C sets lastRPM to ((payload[3] << 8) | payload[4]) / 4, a value
\* in 0..16383, and leaves lastSPEED; one whose payload starts with 03 41 0D
\* sets lastSPEED to payload[3], a value in 0..255, and leaves lastRPM;
\* decoding changes no counter and no deadline.
C13_DecodesReplies ==
    [][DecodeFrame /\ ~rxFrame.ext /\ rxFrame.id = 2024 =>
        /\ (HasRpmShape(rxFrame) =>
              /\ lastRPM' = RpmOf(rxFrame)
              /\ lastRPM' \in 0..16383
              /\ lastSPEED' = lastSPEED)
        /\ (HasSpeedShape(rxFrame) =>
              /\ lastSPEED' = SpeedOf(rxFrame)
              /\ lastSPEED' \in 0..255
              /\ lastRPM' = lastRPM)
        /\ UNCHANGED <<statsRPM, statsSPEED, requestRpmLastMillis,
                       requestSpeedLastMillis, lastEngineLog, lastFastPublish>>
      ]_vars

\* what does hold of the decoder: the same for the replies that carry the
\* bytes the decoder reads, five for RPM and four for speed
FullReplyDecoded ==
    [][DecodeFrame /\ ~rxFrame.ext /\ rxFrame.id = 2024 =>
        /\ (HasRpmShape(rxFrame) /\ Len(rxFrame.data) >= 5 =>
              /\ lastRPM' = RpmOf(rxFrame)
              /\ lastRPM' \in 0..16383
              /\ lastSPEED' = lastSPEED)
        /\ (HasSpeedShape(rxFrame) /\ Len(rxFrame.data) >= 4 =>
              /\ lastSPEED' = SpeedOf(rxFrame)
              /\ lastSPEED' \in 0..255
              /\ lastRPM' = lastRPM)
        /\ UNCHANGED <<statsRPM, statsSPEED, requestRpmLastMillis,
                       requestSpeedLastMillis, lastEngineLog, lastFastPublish>>
      ]_vars

\* the counters st2 are st after one period: total + 1, exactly one of off,
\* idle and non-idle + 1, sum, min and max as before unless non-idle grew
OnePeriodCounted(st, st2) ==
    /\ st2.numSamples = st.numSamples + 1
    /\ st2.offSamples - st.offSamples \in {0, 1}
    /\ st2.idleSamples - st.idleSamples \in {0, 1}
    /\ st2.nonIdleSamples - st.nonIdleSamples \in {0, 1}
    /\ (st2.offSamples - st.offSamples) + (st2.idleSamples - st.idleSamples)
          + (st2.nonIdleSamples - st.nonIdleSamples) = 1
    /\ (st2.nonIdleSamples = st.nonIdleSamples =>
          /\ st2.nonIdleSum = st.nonIdleSum
          /\ st2.nonIdleMin = st.nonIdleMin
          /\ st2.nonIdleMax = st.nonIdleMax)

\* C14: a period boundary of a quantity, with keyIn true or false, adds 1 to
\* that quantity's total and to exactly one of its off, idle and non-idle
\* counters, changes sum, min and max only with the non-idle counter, leaves
\* the quantity's latest sample at 0 and its deadline at millis(), and leaves
\* the other quantity's latest sample, counters and deadline unchanged.
C14_BoundaryEffect ==
    [][/\ (RequestRPM /\ out'.boundary =>
             /\ OnePeriodCounted(statsRPM, statsRPM')
             /\ lastRPM' = 0
             /\ requestRpmLastMillis' = now % MillisModulus
             /\ UNCHANGED <<lastSPEED, statsSPEED, requestSpeedLastMillis>>)
       /\ (RequestSPEED /\ out'.boundary =>
             /\ OnePeriodCounted(statsSPEED, statsSPEED')
             /\ lastSPEED' = 0
             /\ requestSpeedLastMillis' = now % MillisModulus
             /\ UNCHANGED <<lastRPM, statsRPM, requestRpmLastMillis>>)]_vars

\* with the key out, a speed boundary has counted an idle period after a
\* non-idle one, next to an idle RPM period
C14_Witness ==
    /\ out.kind = "speed"
    /\ out.boundary
    /\ ~keyIn
    /\ lastSPEED = 0
    /\ statsSPEED.idleSamples = 1
    /\ statsSPEED.nonIdleSamples = 1
    /\ statsRPM.idleSamples = 1

\* C15: the period section of a quantity runs the boundary if and only if the
\* unsigned difference millis() - deadline is at least the request period;
\* the total of a quantity grows only in that step, by one, and not twice in
\* one iteration of loop(); the deadlines recorded by two consecutive
\* boundaries of a quantity differ by at least 100 ms, and so do their real
\* times.
C15_BoundaryIffElapsed ==
    [][/\ (RequestRPM =>
             (out'.boundary <=>
                ((now % MillisModulus) - requestRpmLastMillis) % MillisModulus
                    >= 100))
       /\ (RequestSPEED =>
             (out'.boundary <=>
                ((now % MillisModulus) - requestSpeedLastMillis) % MillisModulus
                    >= 100))
       /\ (statsRPM'.numSamples > statsRPM.numSamples =>
             /\ RequestRPM /\ out'.boundary
             /\ statsRPM'.numSamples = statsRPM.numSamples + 1
             /\ ~cadence.rpmInLoop)
       /\ (statsSPEED'.numSamples > statsSPEED.numSamples =>
             /\ RequestSPEED /\ out'.boundary
             /\ statsSPEED'.numSamples = statsSPEED.numSamples + 1
             /\ ~cadence.speedInLoop)
       /\ (RequestRPM /\ out'.boundary =>
             /\ (requestRpmLastMillis' - requestRpmLastMillis) % MillisModulus >= 100
             /\ cadence'.rpmAt - cadence.rpmAt >= 100)
       /\ (RequestSPEED /\ out'.boundary =>
             /\ (requestSpeedLastMillis' - requestSpeedLastMillis) % MillisModulus
                   >= 100
             /\ cadence'.speedAt - cadence.speedAt >= 100)]_vars

\* a second RPM boundary has run 150 ms after the first, and iterations in
\* between ran none
C15_Witness ==
    /\ out.kind = "rpm"
    /\ out.boundary
    /\ cadence.rpmAt = BootTime + 150
    /\ statsRPM.numSamples = 2

\* the class a period boundary gives a sample under an idle threshold
ClassOf(v, idle) ==
    IF v = 0 THEN "offSamples"
    ELSE IF v < idle THEN "idleSamples" ELSE "nonIdleSamples"

\* the counters st2 are st with one more sample, of the class of v
CountedAs(st, st2, v, idle) ==
    /\ st2.numSamples = st.numSamples + 1
    /\ \A k \in {"offSamples", "idleSamples", "nonIdleSamples"} :
          st2[k] = st[k] + (IF k = ClassOf(v, idle) THEN 1 ELSE 0)

\* C16: a period boundary counts one sample, the value in the quantity's
\* slot, and empties the slot, and the slot stays 0 until a reply of the
\* quantity is decoded, so no reply is counted by two boundaries; a reply
\* decoded while an earlier one waits in the slot replaces it without any
\* counter changing, so only the last reply of a period is counted; a reply
\* decoded in the iteration of loop() that runs the boundary is the sample
\* that boundary counts.
C16_SampleConsumedOnce ==
    [][/\ (~freshRPM => lastRPM = 0)
       /\ (~freshSPEED => lastSPEED = 0)
       /\ (RequestRPM /\ out'.boundary =>
             /\ CountedAs(statsRPM, statsRPM', lastRPM, idleRPM)
             /\ lastRPM' = 0 /\ ~freshRPM')
       /\ (RequestSPEED /\ out'.boundary =>
             /\ CountedAs(statsSPEED, statsSPEED', lastSPEED, idleSPEED)
             /\ lastSPEED' = 0 /\ ~freshSPEED')
       /\ (DecodeFrame /\ out'.decoded = "rpm" =>
             /\ lastRPM' = out'.value
             /\ out'.overwrote = freshRPM
             /\ UNCHANGED <<statsRPM, statsSPEED>>)
       /\ (DecodeFrame /\ out'.decoded = "speed" =>
             /\ lastSPEED' = out'.value
             /\ out'.overwrote = freshSPEED
             /\ UNCHANGED <<statsRPM, statsSPEED>>)
       /\ (RequestRPM /\ out'.boundary /\ out.kind = "rx" /\ out.decoded = "rpm" =>
             /\ out'.counted = out.value
             /\ CountedAs(statsRPM, statsRPM', out.value, idleRPM))
       /\ (RequestSPEED /\ out'.boundary /\ out.decodedNow = "speed" =>
             /\ out'.counted = out.valueNow
             /\ CountedAs(statsSPEED, statsSPEED', out.valueNow, idleSPEED))
      ]_vars

\* a boundary has counted the idle RPM reply decoded in its own iteration,
\* which had replaced an earlier reply of the period
C16_Witness ==
    /\ out.kind = "rpm"
    /\ out.boundary
    /\ out.decodedNow = "rpm"
    /\ out.overwrote
    /\ out.counted = 800
    /\ statsRPM.idleSamples = 1
    /\ statsRPM.nonIdleSamples = 0
    /\ lastRPM = 0

\* the clock of the model can still advance by a request period
TimeAdvances ==
    /\ now + requestRpmPeriod <= MaxTime
    /\ statsRPM.numSamples < MaxSamples
    /\ statsSPEED.numSamples < MaxSamples

\* C17: with loop() called again and again and time advancing, whatever the
\* key, the bus and the sends do, the period boundary of each quantity runs
\* again, and a total that is 0 after a reset becomes positive.
C17_BoundaryKeepsFiring ==
    /\ TimeAdvances ~> (out.kind = "rpm" /\ out.boundary)
    /\ TimeAdvances ~> (out.kind = "speed" /\ out.boundary)
    /\ (TimeAdvances /\ statsRPM.numSamples = 0) ~> (statsRPM.numSamples > 0)
    /\ (TimeAdvances /\ statsSPEED.numSamples = 0) ~> (statsSPEED.numSamples > 0)

\* after a reset, boundaries of both quantities have run with the key out
\* and with a failed send before, and no reply was ever decoded
C17_Witness ==
    /\ out.kind = "speed"
    /\ out.boundary
    /\ ~keyIn
    /\ errorFlagRPM
    /\ statsRPM.numSamples = 1
    /\ statsRPM.offSamples = 1
    /\ statsSPEED.offSamples = 1
    /\ cadence.rpmAt > BootTime + requestRpmPeriod

\* C18: while idleRPM is greater than 0, the adaptive trigger fires only in an
\* iteration of loop() that ran no RPM boundary and only when an RPM reply
\* has been decoded since the last RPM boundary.
C18_TriggerNeedsFreshSample ==
    [][Fired /\ idleRPM > 0 => ~cadence.rpmInLoop /\ freshRPM]_vars

\* the trigger has fired with a positive idle threshold, after an RPM
\* boundary of an earlier iteration
C18_Witness ==
    /\ out.kind = "pub"
    /\ out.locPub
    /\ idleRPM > 0
    /\ freshRPM
    /\ ~cadence.rpmInLoop
    /\ statsRPM.numSamples > 0
    /\ cadence.rpmAt = now

\* sum, min and max of a quantity are 0 exactly when it has no non-idle
\* sample, and with non-idle samples 0 < min <= sum / samples <= max
SentinelsAgree(st) ==
    /\ (st.nonIdleSamples = 0 <=> st.nonIdleSum = 0)
    /\ (st.nonIdleSamples = 0 <=> st.nonIdleMin = 0)
    /\ (st.nonIdleSamples = 0 <=> st.nonIdleMax = 0)
    /\ (st.nonIdleSamples > 0 =>
          /\ 0 < st.nonIdleMin
          /\ st.nonIdleMin <= st.nonIdleSum \div st.nonIdleSamples
          /\ st.nonIdleSum \div st.nonIdleSamples <= st.nonIdleMax)

\* C19: in every reachable state, with idle thresholds >= 0, for RPM and for
\* speed: nonIdleSamples = 0 exactly when nonIdleSum = 0, exactly when
\* nonIdleMin = 0, exactly when nonIdleMax = 0; and when nonIdleSamples > 0
\* then 0 < nonIdleMin <= nonIdleSum / nonIdleSamples <= nonIdleMax.
C19_SentinelsAgree ==
    idleRPM >= 0 /\ idleSPEED >= 0 =>
        SentinelsAgree(statsRPM) /\ SentinelsAgree(statsSPEED)

\* under an idle threshold of 0, three non-idle speed samples with min below
\* mean below max have been counted after an off sample
C19_Witness ==
    /\ env.quantity = "speed"
    /\ idleSPEED = 0
    /\ statsSPEED.offSamples = 1
    /\ statsSPEED.nonIdleSamples = 3
    /\ statsSPEED.nonIdleMin = 5
    /\ statsSPEED.nonIdleMax = 50
    /\ statsSPEED.nonIdleSum = 65

\* C20 as claimed: while the iterations of loop() are less than a wrap of
\* millis() apart, the period section of a quantity runs the boundary exactly
\* in the iterations in which at least 100 ms of real time have passed since
\* the quantity's previous boundary.
C20_FiresWhenIterationsClose ==
    [][/\ (RequestRPM /\ cadence.soon =>
             (out'.boundary <=> now - cadence.rpmAt >= 100))
       /\ (RequestSPEED /\ cadence.soon =>
             (out'.boundary <=> now - cadence.speedAt >= 100))]_vars

\* C20, amended: while less than a wrap of millis() of real time has passed
\* since a quantity's previous boundary, the period section of the quantity
\* runs the boundary exactly in the iterations of loop() in which at least
\* 100 ms of real time have passed since that boundary, before, at and after
\* the wrap; the debug log is written exactly when the unsigned difference
\* millis() - lastEngineLog is at least its period.
C20_CorrectAcrossWrap ==
    [][/\ (RequestRPM /\ now - cadence.rpmAt < MillisModulus =>
             (out'.boundary <=> now - cadence.rpmAt >= 100))
       /\ (RequestSPEED /\ now - cadence.speedAt < MillisModulus =>
             (out'.boundary <=> now - cadence.speedAt >= 100))
       /\ (EngineLog =>
             (out'.kind = "log" <=>
                ((now % MillisModulus) - lastEngineLog) % MillisModulus >= 2000))
      ]_vars

\* an RPM boundary has run 50 ms after the wrap of millis(), its previous
\* boundary having run before the wrap
C20_Witness ==
    /\ out.kind = "rpm"
    /\ out.boundary
    /\ now = MillisModulus + 50
    /\ cadence.rpmAt = now
    /\ requestRpmLastMillis = 50

====
